---- MODULE Spec2Model ----
(***************************************************************************)
(* Model of pymyriad's class-model compiler (myriad_metaclass.py) and of   *)
(* the object system the code it generates builds at startup               *)
(* (myriad_module.py templates, MyriadObject's verbatim C bodies).         *)
(*                                                                         *)
(* An OrderedDict is a sequence of <<key, value>> pairs; a struct layout   *)
(* is the OrderedDict handed to MyriadStructType.                          *)
(***************************************************************************)
EXTENDS Integers, Sequences, FiniteSets, TLC

VARIABLES
    classes,    \* built Python classes: name -> class namespace (the model)
    order,      \* names of the built classes, in build order
    result,     \* outcome of the last class statement: "ok" or the exception
    last,       \* the last class statement: its name, bases and namespace
    replay,     \* what the statements that did not raise build on their own,
                \* and whether a statement has raised
    pc,         \* "compile", or where the generated program's startup stands
    cuda,       \* the generated program is compiled with CUDA defined
    host,       \* host memory: address -> vtable
    dev,        \* accelerator memory: address -> <<>> (allocated) or <<vtable>>
    devsym,     \* accelerator symbols MyriadObject_dev_t, MyriadClass_dev_t
    regs,       \* initMyriadObject's locals obj_addr, class_addr
    inited,     \* how many classes of order have run their init function
    objs,       \* host instances: id -> [m_class]
    stack,      \* the dispatch in progress: frames, innermost last
    ctor_app,   \* cls_ctor on its own: the argument list it is called with
    ctor_self,  \* cls_ctor on its own: the vtable it is called on
    synth_in,   \* delegator synthesis on its own: the method's function
    synth_out,  \* delegator synthesis on its own: what was made from it
    devsize,    \* accelerator memory: address -> size it was allocated with
    mirror      \* the cls_cudafy call in progress: its self and dev_class

buildVars == <<classes, order, result, last, replay>>

runVars == <<cuda, host, dev, devsym, regs, inited, objs, stack, devsize, mirror>>

ctorVars == <<ctor_app, ctor_self, synth_in, synth_out>>

vars == <<classes, order, result, last, replay, pc, cuda, host, dev, devsym, regs, inited,
          objs, stack, ctor_app, ctor_self, synth_in, synth_out, devsize, mirror>>

----------------------------------------------------------------------------
(* Bounds *)

\* number of subclasses built below MyriadObject
MaxClasses == 3

\* members declared in class bodies, summed over the subclasses
MaxMembers == 3

----------------------------------------------------------------------------
(* OrderedDict *)

Keys(od) == [i \in 1..Len(od) |-> od[i][1]]

HasKey(od, k) == \E i \in 1..Len(od) : od[i][1] = k

\* od[k] = v: an existing key keeps its position, a new key is appended
OdSet(od, k, v) ==
    IF HasKey(od, k)
    THEN [i \in 1..Len(od) |-> IF od[i][1] = k THEN <<k, v>> ELSE od[i]]
    ELSE Append(od, <<k, v>>)

OdGet(od, k) == od[CHOOSE i \in 1..Len(od) : od[i][1] = k][2]

SeqToSet(s) == {s[i] : i \in 1..Len(s)}

----------------------------------------------------------------------------
(* Names *)

ObjectBase == "_MyriadObjectBase"

MyriadObject == "MyriadObject"

ClassName == <<"Neuron", "BurstNeuron", "RelayNeuron", "GapNeuron", "LeafNeuron">>

\* name + "Class"
ClsName(name) ==
    CASE name = "MyriadObject" -> "MyriadObjectClass"
      [] name = "Neuron" -> "NeuronClass"
      [] name = "BurstNeuron" -> "BurstNeuronClass"
      [] name = "RelayNeuron" -> "RelayNeuronClass"
      [] name = "GapNeuron" -> "GapNeuronClass"
      [] OTHER -> "LeafNeuronClass"

LifecycleMethods == <<"ctor", "dtor", "cudafy", "decudafy">>

----------------------------------------------------------------------------
(* Class bodies: a namespace is a sequence of members [key, kind, doc, sig];
   sig tells which annotations a method definition carries *)

MethodKinds == {"myriad_method", "verbatim", "myriadclass"}

Member(k, kind, doc) == [key |-> k, kind |-> kind, doc |-> doc, sig |-> "own"]

\* the body of class MyriadObject
MyriadObjectNamespace ==
    << Member("ctor", "verbatim", TRUE),
       Member("dtor", "verbatim", TRUE),
       Member("cudafy", "verbatim", TRUE),
       Member("decudafy", "verbatim", TRUE),
       Member("cls_ctor", "myriadclass", TRUE),
       Member("cls_dtor", "myriadclass", TRUE),
       Member("cls_cudafy", "myriadclass", TRUE),
       Member("cls_decudafy", "myriadclass", TRUE),
       Member("render_templates", "other", FALSE),
       Member("_fill_in_base_methods", "other", FALSE) >>

\* what a subclass body may declare
Members ==
    { Member("_", "ctype", FALSE),
      Member("rate", "ctype", FALSE),
      Member("gain", "timeseries", FALSE),
      Member("fire", "myriad_method", FALSE),
      [Member("fire", "myriad_method", FALSE) EXCEPT !.sig = "other"],
      Member("fire", "myriadclass", TRUE),
      Member("fire", "myriadclass", FALSE),
      Member("ctor", "verbatim", TRUE),
      Member("cudafy", "verbatim", TRUE),
      Member("dtor", "verbatim", FALSE),
      Member("helper", "function", FALSE) }

----------------------------------------------------------------------------
(* myriad_types values, as far as the builder looks at them *)

MyriadScalar(ident, base, ptr, arr_id) ==
    [kind |-> "scalar", ident |-> ident, base |-> base, ptr |-> ptr,
     arr_id |-> arr_id]

\* MyriadStructType(name, members)
MyriadStructType(name, members) == [name |-> name, members |-> members]

\* struct_type(ident, quals): a variable whose type is the whole struct
StructVar(struct_type, ident) ==
    [kind |-> "struct", ident |-> ident, struct_name |-> struct_type.name,
     members |-> struct_type.members]

\* gen_typedef's name for a method's function-pointer type: the name that
\* makes "my_" + name the member MyriadObject.cls_ctor's body assigns (my_ctor)
TypedefName(ident) == ident

\* "my_" + typedef name
MyPrefixed(tname) ==
    CASE tname = "ctor" -> "my_ctor"
      [] tname = "dtor" -> "my_dtor"
      [] tname = "cudafy" -> "my_cudafy"
      [] tname = "decudafy" -> "my_decudafy"
      [] tname = "cls_ctor" -> "my_cls_ctor"
      [] tname = "cls_dtor" -> "my_cls_dtor"
      [] tname = "cls_cudafy" -> "my_cls_cudafy"
      [] tname = "cls_decudafy" -> "my_cls_decudafy"
      [] tname = "fire" -> "my_fire"
      [] OTHER -> "my_method"

\* the annotated parameters and return type of a method definition
Signature(ident) ==
    CASE ident \in {"ctor", "cls_ctor"} ->
            [args |-> <<"self", "app">>, ret |-> [base |-> "MVoid", ptr |-> TRUE]]
      [] ident \in {"dtor", "cls_dtor"} ->
            [args |-> <<"self">>, ret |-> [base |-> "MInt", ptr |-> FALSE]]
      [] ident \in {"cudafy", "cls_cudafy"} ->
            [args |-> <<"self", "clobber">>, ret |-> [base |-> "MVoid", ptr |-> TRUE]]
      [] ident \in {"decudafy", "cls_decudafy"} ->
            [args |-> <<"self", "cuda_self">>, ret |-> [base |-> "MVoid", ptr |-> FALSE]]
      [] OTHER ->
            [args |-> <<"self", "current">>, ret |-> [base |-> "MDouble", ptr |-> FALSE]]

\* MyriadFunction(ident, args_list, ret_var): args_list in positional order
MyriadFunction(ident, args_list, ret_var) ==
    [kind |-> "function", ident |-> ident, args_list |-> args_list,
     ret_var |-> ret_var, verbatim |-> FALSE, is_myriadclass_method |-> FALSE,
     fun_def |-> ""]

\* the annotations of one method definition: those the name usually has, or
\* for sig = "other" a different parameter list and return type
AnnotationsOf(m) ==
    IF m.sig = "other"
    THEN [args |-> <<"self">>, ret |-> [base |-> "MInt", ptr |-> FALSE]]
    ELSE Signature(m.key)

\* pyfun_to_cfun(method.original_fun, verbatim): the MyriadFunction of a method
pyfun_to_cfun(m, verbatim) ==
    [MyriadFunction(m.key, AnnotationsOf(m).args, AnnotationsOf(m).ret) EXCEPT
        !.verbatim = verbatim, !.fun_def = "declared"]

\* MyriadFunction.__eq__ as OrderedSet membership uses it: by method name
MyriadFunctionEq(f, g) == f.ident = g.ident

\* mtd in ordered_set
InOrderedSet(mtd, oset) == \E i \in 1..Len(oset) : MyriadFunctionEq(oset[i], mtd)

\* OrderedSet.add
OrderedSetAdd(oset, mtd) == IF InOrderedSet(mtd, oset) THEN oset ELSE Append(oset, mtd)

RECURSIVE OrderedSetUnion(_, _)
OrderedSetUnion(a, b) ==
    IF b = <<>> THEN a ELSE OrderedSetUnion(OrderedSetAdd(a, Head(b)), Tail(b))

----------------------------------------------------------------------------
(* _gen_mclass_ptr_scalar, _initialize_obj_cls_structs *)

gen_mclass_ptr_scalar(ident) == MyriadScalar(ident, "struct MyriadClass", TRUE, "")

\* returns the two OrderedDicts the caller passed in empty
initialize_obj_cls_structs(cs, supercls) ==
    IF supercls # ObjectBase
    THEN [myriad_obj_vars |-> << <<"_", StructVar(cs[supercls].obj_struct, "_")>> >>,
          myriad_cls_vars |-> << <<"_", StructVar(cs[supercls].cls_struct, "_")>> >>]
    ELSE [myriad_obj_vars |-> << <<"mclass", gen_mclass_ptr_scalar("mclass")>> >>,
          myriad_cls_vars |->
            << <<"_", MyriadScalar("_", "struct MyriadObject", FALSE, "")>>,
               <<"super", gen_mclass_ptr_scalar("super")>>,
               <<"device_class", gen_mclass_ptr_scalar("device_class")>>,
               <<"size", MyriadScalar("size", "MSizeT", FALSE, "")>> >>]

----------------------------------------------------------------------------
(* _parse_namespace *)

parse_member(acc, m) ==
    IF m.kind \in MethodKinds
    THEN [acc EXCEPT !.myriad_methods = OdSet(@, m.key, m)]
    ELSE IF m.kind = "function" THEN acc
    ELSE IF m.kind = "mybase"
    THEN [acc EXCEPT !.myriad_obj_vars =
             OdSet(@, m.key, MyriadScalar(m.key, "MInt", FALSE, ""))]
    ELSE IF m.kind = "ctype"
    THEN [acc EXCEPT !.myriad_obj_vars =
             OdSet(@, m.key, MyriadScalar(m.key, "MDouble", FALSE, ""))]
    ELSE IF m.kind = "timeseries"
    THEN [acc EXCEPT !.myriad_obj_vars =
             OdSet(@, m.key, MyriadScalar(m.key, "MDouble", FALSE, "SIMUL_LEN"))]
    ELSE acc

RECURSIVE parse_namespace(_, _)
\* acc = [myriad_methods, myriad_obj_vars], updated member by member
parse_namespace(namespace, acc) ==
    IF namespace = <<>> THEN acc
    ELSE parse_namespace(Tail(namespace), parse_member(acc, Head(namespace)))

----------------------------------------------------------------------------
(* _method_organizer_helper *)

IsVerbatim(m) == m.kind \in {"verbatim", "myriadclass"}

\* the conversion loop with the docstring check only for methods tagged
\* myriad_method_verbatim by the public decorator
convert_raises_public(myriad_methods) ==
    \E i \in 1..Len(myriad_methods) :
        myriad_methods[i][2].kind = "verbatim" /\ ~myriad_methods[i][2].doc

\* the conversion loop: TRUE when it raises "Verbatim method cannot have
\* empty docstring"
convert_raises(myriad_methods) ==
    \E i \in 1..Len(myriad_methods) :
        IsVerbatim(myriad_methods[i][2]) /\ ~myriad_methods[i][2].doc

convert_methods(myriad_methods) ==
    [i \in 1..Len(myriad_methods) |->
        LET m == myriad_methods[i][2] IN
        <<myriad_methods[i][1],
          [pyfun_to_cfun(m, IsVerbatim(m)) EXCEPT
              !.is_myriadclass_method = (m.kind = "myriadclass")]>>]

\* variant: only the direct superclass's own_methods, no walk up the chain
get_parent_methods_direct(cs, cls) ==
    IF cls = ObjectBase THEN <<>> ELSE cs[cls].own_methods

RECURSIVE get_parent_methods(_, _)
get_parent_methods(cs, cls) ==
    IF cls = ObjectBase THEN <<>>
    ELSE OrderedSetUnion(cs[cls].own_methods,
                         get_parent_methods(cs, cs[cls].bases[1]))

\* "my_" + mtd.fun_typedef.name
SlotIdent(mtd) == MyPrefixed(TypedefName(mtd.ident))

\* variant: the is_myriadclass_method test is missing
organize_method_all(parent_methods, acc, mtd) ==
    IF InOrderedSet(mtd, parent_methods)
    THEN acc
    ELSE [own_methods |-> OrderedSetAdd(acc.own_methods, mtd),
          myriad_cls_vars |->
              OdSet(acc.myriad_cls_vars, SlotIdent(mtd),
                    MyriadScalar(SlotIdent(mtd), TypedefName(mtd.ident), FALSE, ""))]

\* one turn of the loop over myriad_methods.values()
organize_method(parent_methods, acc, mtd) ==
    IF InOrderedSet(mtd, parent_methods) \/ mtd.is_myriadclass_method
    THEN acc
    ELSE [own_methods |-> OrderedSetAdd(acc.own_methods, mtd),
          myriad_cls_vars |->
              OdSet(acc.myriad_cls_vars, SlotIdent(mtd),
                    MyriadScalar(SlotIdent(mtd), TypedefName(mtd.ident), FALSE, ""))]

RECURSIVE organize_methods(_, _, _)
organize_methods(parent_methods, acc, mtds) ==
    IF mtds = <<>> THEN acc
    ELSE organize_methods(parent_methods,
                          organize_method(parent_methods, acc, Head(mtds)[2]),
                          Tail(mtds))

\* returns [raised, myriad_methods, myriad_cls_vars, own_methods]
method_organizer_helper(cs, supercls, myriad_methods, myriad_cls_vars) ==
    IF convert_raises(myriad_methods)
    THEN [raised |-> "Exception", myriad_methods |-> myriad_methods,
          myriad_cls_vars |-> myriad_cls_vars, own_methods |-> <<>>]
    ELSE
        LET converted == convert_methods(myriad_methods)
            acc == organize_methods(get_parent_methods(cs, supercls),
                                    [own_methods |-> <<>>,
                                     myriad_cls_vars |-> myriad_cls_vars],
                                    converted)
        IN  [raised |-> "", myriad_methods |-> converted,
             myriad_cls_vars |-> acc.myriad_cls_vars,
             own_methods |-> acc.own_methods]

----------------------------------------------------------------------------
(* MyriadObject._fill_in_base_methods, _MyriadObjectBase._fill_in_base_methods *)

\* MyriadFunction.from_myriad_func(super's method, fun_def=rendered template)
fill_in(cs, cls, myriad_methods, ident) ==
    IF HasKey(myriad_methods, ident) THEN myriad_methods
    ELSE OdSet(myriad_methods, ident,
               [OdGet(cs[cls].myriad_methods, ident) EXCEPT !.fun_def = "template"])

fill_in_base_methods(cs, cls, myriad_methods) ==
    IF cls = ObjectBase THEN myriad_methods
    ELSE fill_in(cs, cls,
                 fill_in(cs, cls,
                         fill_in(cs, cls, myriad_methods, "ctor"),
                         "cls_cudafy"),
                 "cls_ctor")

----------------------------------------------------------------------------
(* MyriadMetaclass.__new__ *)

IsMyriadClass(cs, c) == c = ObjectBase \/ c \in DOMAIN cs

\* the checks of bases without the test for more than one base
check_bases_first(cs, bases) ==
    IF ~IsMyriadClass(cs, bases[1]) THEN "TypeError" ELSE ""

\* the checks of bases __new__ starts with: the exception raised, or ""
check_bases(cs, bases) ==
    IF Len(bases) > 1 THEN "NotImplementedError"
    ELSE IF ~IsMyriadClass(cs, bases[1]) THEN "TypeError"
    ELSE ""

\* the class the statement class name(bases): namespace creates, or the
\* exception it raises
MetaNew(cs, name, bases, namespace) ==
    IF check_bases(cs, bases) # ""
    THEN [raised |-> check_bases(cs, bases)]
    ELSE
        LET supercls == bases[1]
            structs == initialize_obj_cls_structs(cs, supercls)
            parsed == parse_namespace(namespace,
                          [myriad_methods |-> <<>>,
                           myriad_obj_vars |-> structs.myriad_obj_vars])
            organized == method_organizer_helper(cs, supercls,
                             parsed.myriad_methods, structs.myriad_cls_vars)
        IN  IF organized.raised # ""
            THEN [raised |-> organized.raised]
            ELSE [raised |-> "",
                  cls |->
                    [name |-> name,
                     obj_name |-> name,
                     cls_name |-> ClsName(name),
                     bases |-> <<supercls>>,
                     body |-> namespace,
                     obj_struct |-> MyriadStructType(name, parsed.myriad_obj_vars),
                     own_methods |-> organized.own_methods,
                     cls_struct |-> MyriadStructType(ClsName(name),
                                                     organized.myriad_cls_vars),
                     myriad_methods |->
                         fill_in_base_methods(cs, supercls, organized.myriad_methods),
                     myriad_obj_vars |-> parsed.myriad_obj_vars,
                     myriad_cls_vars |-> organized.myriad_cls_vars]]

----------------------------------------------------------------------------
(* The compiler as a state machine: class statements, one after another *)

RECURSIVE SumLen(_, _)
SumLen(cs, names) ==
    IF names = <<>> THEN 0
    ELSE Len(cs[Head(names)].body) + SumLen(cs, Tail(names))

\* members declared so far by the subclasses
Declared == SumLen(classes, Tail(order))

Namespaces(members, n) ==
    {ns \in UNION {[1..k -> members] : k \in 0..n} :
        \A i, j \in 1..Len(ns) : i # j => ns[i].key # ns[j].key}

\* the same statement run where no statement before it has raised: the class
\* it builds from the classes built that way, or the exception in its place
Replayed(r, name, bases, namespace) ==
    LET built == MetaNew(r.classes, name, bases, namespace) IN
    IF built.raised # ""
    THEN [r EXCEPT !.order = Append(@, built.raised)]
    ELSE [classes |-> (name :> built.cls) @@ r.classes,
          order |-> Append(r.order, name), caught |-> r.caught]

\* class name(bases): namespace
\* a class object that exists before its metaclass has finished
ClassStatement_registers(name, bases, namespace) ==
    LET built == MetaNew(classes, name, bases, namespace) IN
    /\ last' = [name |-> name, bases |-> bases, namespace |-> namespace]
    /\ IF built.raised # ""
       THEN /\ result' = built.raised
            /\ classes' = (name :> classes[MyriadObject]) @@ classes
            /\ replay' = [replay EXCEPT !.caught = TRUE]
            /\ UNCHANGED order
       ELSE /\ classes' = (name :> built.cls) @@ classes
            /\ order' = Append(order, name)
            /\ result' = "ok"
            /\ replay' = Replayed(replay, name, bases, namespace)

ClassStatement(name, bases, namespace) ==
    LET built == MetaNew(classes, name, bases, namespace) IN
    /\ last' = [name |-> name, bases |-> bases, namespace |-> namespace]
    /\ IF built.raised # ""
       THEN /\ result' = built.raised
            /\ replay' = [replay EXCEPT !.caught = TRUE]
            /\ UNCHANGED <<classes, order>>
       ELSE /\ classes' = (name :> built.cls) @@ classes
            /\ order' = Append(order, name)
            /\ result' = "ok"
            /\ replay' = Replayed(replay, name, bases, namespace)

\* the bases a class statement may name: the class built last, that class
\* and another, or a class that is no Myriad class
BasesOf(built) == {<<built>>, <<built, MyriadObject>>, <<"dict">>}

\* the next class of the chain, derived from the class built last; an
\* exception raised by a class statement ends the run of the module
DefineSubclass ==
    /\ pc = "compile"
    /\ result = "ok"
    /\ Len(order) <= MaxClasses
    /\ \E namespace \in Namespaces(Members, MaxMembers - Declared),
          bases \in BasesOf(order[Len(order)]) :
          ClassStatement(ClassName[Len(order)], bases, namespace)
    /\ UNCHANGED <<pc, runVars, ctorVars>>

\* the class bodies explored for a statement that follows one that raised
RetryMembers == {m \in Members : m.key \in {"rate", "dtor"}}

\* the exception is caught and the module goes on with another class statement
DefineAfterFailure ==
    /\ pc = "compile"
    /\ result # "ok"
    /\ Len(order) <= MaxClasses
    /\ \E namespace \in Namespaces(RetryMembers, IF Declared < MaxMembers THEN 1 ELSE 0),
          bases \in BasesOf(order[Len(order)]) :
          ClassStatement(ClassName[Len(order)], bases, namespace)
    /\ UNCHANGED <<pc, runVars, ctorVars>>

----------------------------------------------------------------------------
(* Vocabulary of the properties of the builder *)

FieldKinds == {"ctype", "mybase", "timeseries"}

Subclasses == DOMAIN classes \ {MyriadObject}

SuperOf(c) == classes[c].bases[1]

RECURSIVE Ancestors(_)
\* the proper ancestors of a built class
Ancestors(c) ==
    IF SuperOf(c) = ObjectBase THEN {}
    ELSE {SuperOf(c)} \cup Ancestors(SuperOf(c))

SelectKeys(body, kinds) ==
    LET sel == SelectSeq(body, LAMBDA m : m.kind \in kinds) IN
    [i \in 1..Len(sel) |-> sel[i].key]

\* names of the fields a class body declares, in declared order
OwnFieldKeys(c) == SelectKeys(classes[c].body, FieldKinds)

\* names a class body declares as methods of the given kinds
MethodNames(c, kinds) == SeqToSet(SelectKeys(classes[c].body, kinds))

\* the methods of a body that no ancestor's body declares, in declared order
NewMethods(c, kinds, ancestorKinds) ==
    SelectSeq(classes[c].body,
              LAMBDA m : /\ m.kind \in kinds
                         /\ \A a \in Ancestors(c) : m.key \notin MethodNames(a, ancestorKinds))

SlotOfKey(k) == MyPrefixed(TypedefName(k))

SlotKeys(ms) == [i \in 1..Len(ms) |-> SlotOfKey(ms[i].key)]

Idents(fs) == [i \in 1..Len(fs) |-> fs[i].ident]

RECURSIVE Flatten(_)
\* a layout with its embedded structs spelled out, member by member
Flatten(members) ==
    IF members = <<>> THEN <<>>
    ELSE LET v == Head(members)[2] IN
         (IF v.kind = "struct" THEN Flatten(v.members) ELSE <<Head(members)[1]>>)
         \o Flatten(Tail(members))

Count(s, x) == Cardinality({i \in 1..Len(s) : s[i] = x})

IsPrefix(s, t) == Len(s) <= Len(t) /\ SubSeq(t, 1, Len(s)) = s

----------------------------------------------------------------------------
(* C1 *)

\* C1, as claimed: every subclass's instance layout is one embedded element
\* shaped exactly like the superclass's full instance layout, followed by
\* the class's own declared fields in declared order, whatever the fields
\* are called.
C1_StructuralPrefix ==
    \A c \in Subclasses :
        LET layout == classes[c].obj_struct.members IN
        /\ Len(layout) >= 1
        /\ layout[1] = <<"_", StructVar(classes[SuperOf(c)].obj_struct, "_")>>
        /\ Keys(Tail(layout)) = OwnFieldKeys(c)

----------------------------------------------------------------------------
(* C2 *)

----------------------------------------------------------------------------
(* C3 *)

\* the classes whose body declares method name k while no ancestor's does
FirstDeclarers(k, kinds) ==
    {c \in DOMAIN classes :
        /\ k \in MethodNames(c, kinds)
        /\ \A a \in Ancestors(c) : k \notin MethodNames(a, MethodKinds)}

\* name k has one slot, in c's own part of the vtable, in c and in every
\* descendant d of c, and no descendant lists k among its own_methods
OneSlotOwnedBy(c, k) ==
    /\ Count(Keys(Tail(classes[c].cls_struct.members)), SlotOfKey(k)) = 1
    /\ \A d \in DOMAIN classes :
          (c = d \/ c \in Ancestors(d)) =>
              Count(Flatten(classes[d].cls_struct.members), SlotOfKey(k)) = 1
    /\ \A d \in DOMAIN classes :
          c \in Ancestors(d) => k \notin SeqToSet(Idents(classes[d].own_methods))

\* every class's flattened slot table starts with its superclass's
SlotTablesGrow ==
    \A c \in Subclasses :
        IsPrefix(Flatten(classes[SuperOf(c)].cls_struct.members),
                 Flatten(classes[c].cls_struct.members))

AllMethodKeys == {m.key : m \in {x \in Members : x.kind \in MethodKinds}}
                 \cup SeqToSet(SelectKeys(MyriadObjectNamespace, MethodKinds))

\* C3, as claimed: a method name first declared in class C (as a method of
\* any kind) gets exactly one slot, owned by C; no descendant that declares
\* it again adds it to own_methods or allocates a second slot; slot tables
\* only grow.
C3_SlotStabilityAsClaimed ==
    /\ \A k \in AllMethodKeys :
          \A c \in FirstDeclarers(k, MethodKinds) : OneSlotOwnedBy(c, k)
    /\ SlotTablesGrow

\* C3, amended: a method name first declared in class C as a method that is
\* not class-level-internal gets exactly one slot, owned by C; a declaration
\* of that name in any descendant of C, at any depth, is not added to the
\* descendant's own_methods and allocates no second slot; every class's
\* accumulated slot table starts with its superclass's, slot for slot.
C3_SlotStability ==
    /\ \A k \in AllMethodKeys :
          \A c \in FirstDeclarers(k, MethodKinds \ {"myriadclass"}) :
              OneSlotOwnedBy(c, k)
    /\ SlotTablesGrow

\* C3's case: a grandchild declares again a method its grandparent
\* introduced and its direct parent does not declare
C3_Witness ==
    \E c \in Subclasses :
        /\ SuperOf(c) \in Subclasses
        /\ \E k \in MethodNames(c, MethodKinds) :
              /\ SuperOf(SuperOf(c)) \in FirstDeclarers(k, {"myriad_method", "verbatim"})
              /\ k \notin MethodNames(SuperOf(c), MethodKinds)
              /\ k \notin SeqToSet(Idents(classes[c].own_methods))

----------------------------------------------------------------------------
(* C4 *)

\* C4: MyriadObject built alone has the instance layout [mclass], the vtable
\* layout [_, super, device_class, size, ctor, dtor, cudafy, decudafy slots]
\* in that order, and exactly the four lifecycle methods as own_methods.
C4_RootAlone ==
    LET root == classes[MyriadObject] IN
    /\ root.obj_struct.members = << <<"mclass", gen_mclass_ptr_scalar("mclass")>> >>
    /\ Keys(root.cls_struct.members) =
          <<"_", "super", "device_class", "size",
            "my_ctor", "my_dtor", "my_cudafy", "my_decudafy">>
    /\ root.cls_struct.members[1][2].base = "struct MyriadObject"
    /\ Idents(root.own_methods) = LifecycleMethods

\* C4's case: MyriadObject is the only class built
C4_Witness == order = <<MyriadObject>> /\ MyriadObject \in DOMAIN classes

----------------------------------------------------------------------------
(* The generated program: memory *)

NULL == "NULL"

\* a null function pointer; a bound slot holds <<owner, method>>
NullFn == <<>>

\* sizeof(struct ...): the struct's members, embedded structs spelled out
SizeOf(struct_type) == Flatten(struct_type.members)

IndexOf(s, x) == CHOOSE i \in 1..Len(s) : s[i] = x

RootModel ==
    MetaNew(<<>>, MyriadObject, <<ObjectBase>>, MyriadObjectNamespace).cls

\* offsetof(struct MyriadClass, my_ctor), in members
OffsetMyCtor == IndexOf(SizeOf(RootModel.cls_struct), "my_ctor") - 1

\* static struct MyriadClass object[]: object[0] at "object", object[1] at
\* "object + 1"; members _, super, device_class, size, then the slots
StaticObject ==
    ("object" :>
        [m_class |-> "object + 1", super |-> "object", device_class |-> NULL,
         size |-> SizeOf(RootModel.obj_struct),
         slots |-> << <<"MyriadObject", "ctor">>, <<"MyriadObject", "dtor">>,
                      <<"MyriadObject", "cudafy">>, <<"MyriadObject", "decudafy">> >>])
    @@
    ("object + 1" :>
        [m_class |-> "object + 1", super |-> "object", device_class |-> NULL,
         size |-> SizeOf(RootModel.cls_struct),
         slots |-> << <<"MyriadClass", "ctor">>, <<"MyriadClass", "dtor">>,
                      <<"MyriadClass", "cudafy">>, <<"MyriadClass", "decudafy">> >>])

\* module variables: the address each class's obj_name and cls_name hold
ObjVar(name) == IF name = MyriadObject THEN "object" ELSE name

ClsVar(name) == IF name = MyriadObject THEN "object + 1" ELSE ClsName(name)

\* myriad_class_of(x): x's m_class
myriad_class_of(h, os, x) == IF x \in DOMAIN os THEN os[x].m_class ELSE h[x].m_class

\* myriad_size_of(x): the size x's class records for its instances
myriad_size_of(h, os, x) == h[myriad_class_of(h, os, x)].size

\* myriad_super(c): c's super
myriad_super(h, c) == h[c].super

DevAddrs == <<"dev1", "dev2", "dev3", "dev4", "dev5", "dev6", "dev7", "dev8",
              "dev9", "dev10">>

\* the address cudaMalloc hands out next
FreshDev(d) == DevAddrs[Cardinality(DOMAIN d) + 1]

----------------------------------------------------------------------------
(* MyriadObject.cls_ctor (MyriadClass_ctor) *)

\* cls_ctor with the dtor and cudafy branches assigning each other's member
SelectorSlot_swapped(selector) ==
    CASE selector = "ctor" -> IndexOf(SizeOf(RootModel.cls_struct), "my_ctor") - OffsetMyCtor
      [] selector = "cudafy" -> IndexOf(SizeOf(RootModel.cls_struct), "my_dtor") - OffsetMyCtor
      [] selector = "dtor" -> IndexOf(SizeOf(RootModel.cls_struct), "my_cudafy") - OffsetMyCtor
      [] selector = "decudafy" -> IndexOf(SizeOf(RootModel.cls_struct), "my_decudafy") - OffsetMyCtor
      [] OTHER -> 0

\* the slot a selector's branch assigns: the position of its member after
\* offsetof(my_ctor); 0 when no branch matches
SelectorSlot(selector) ==
    CASE selector = "ctor" -> IndexOf(SizeOf(RootModel.cls_struct), "my_ctor") - OffsetMyCtor
      [] selector = "cudafy" -> IndexOf(SizeOf(RootModel.cls_struct), "my_cudafy") - OffsetMyCtor
      [] selector = "dtor" -> IndexOf(SizeOf(RootModel.cls_struct), "my_dtor") - OffsetMyCtor
      [] selector = "decudafy" -> IndexOf(SizeOf(RootModel.cls_struct), "my_decudafy") - OffsetMyCtor
      [] OTHER -> 0

RECURSIVE rebind(_, _)
\* the while (selector) loop over the rest of the argument list
rebind(slots, pairs) ==
    IF pairs = <<>> \/ Head(pairs)[1] = "0" THEN slots
    ELSE LET k == SelectorSlot(Head(pairs)[1]) IN
         rebind(IF k = 0 THEN slots ELSE [slots EXCEPT ![k] = Head(pairs)[2]],
                Tail(pairs))

\* cls_ctor without the memcpy of the superclass's slots
memcpy_slots_none(slots, super_slots, n) == slots

\* memcpy((char*) _self + offset, (char*) _self->super + offset, n - offset)
memcpy_slots(slots, super_slots, n) ==
    [i \in 1..Len(slots) |->
        IF i <= n /\ i <= Len(super_slots) THEN super_slots[i] ELSE slots[i]]

\* cls_ctor(self, app), app = super, size, (selector, method)..., 0
cls_ctor(h, self, app) ==
    LET with_super == [self EXCEPT !.super = app.super, !.size = app.size]
        n == Len(myriad_size_of(h, <<>>, app.super)) - OffsetMyCtor
    IN  [with_super EXCEPT
            !.slots = rebind(memcpy_slots(@, h[app.super].slots, n), app.pairs)]

----------------------------------------------------------------------------
(* Startup of the generated program *)

\* calloc(1, size) of a vtable-sized object of class cls (myriad_new)
calloc_vtable(h, cls) ==
    [m_class |-> cls, super |-> NULL, device_class |-> NULL, size |-> <<>>,
     slots |-> [i \in 1..(Len(h[cls].size) - OffsetMyCtor) |-> NullFn]]

\* myriad_new(cls, super, size, selector, method, ..., 0) of a vtable
myriad_new(h, cls, app) == cls_ctor(h, calloc_vtable(h, cls), app)

\* the (selector, method) pairs a class's init function passes for its vtable
ObjPairs(c) ==
    LET mine == SelectSeq(LifecycleMethods,
                          LAMBDA m : HasKey(classes[c].myriad_methods, m))
    IN  [i \in 1..Len(mine) |-> <<mine[i], <<c, mine[i]>> >>] \o << <<"0", NullFn>> >>

\* the pairs it passes for the class of its vtable
ClsPairs(c) ==
    << <<"ctor", <<ClsName(c), "ctor">> >>,
       <<"cudafy", <<ClsName(c), "cudafy">> >>,
       <<"0", NullFn>> >>

RunInit ==
    /\ cuda = FALSE
    /\ host = StaticObject
    /\ dev = <<>>
    /\ devsym = [MyriadObject_dev_t |-> NULL, MyriadClass_dev_t |-> NULL]
    /\ regs = [obj_addr |-> NULL, class_addr |-> NULL]
    /\ inited = 1
    /\ objs = <<>>
    /\ stack = <<>>
    /\ devsize = <<>>
    /\ mirror = [self |-> NULL, dev_class |-> NULL]

\* the module defines MyriadObject first
Init ==
    /\ classes = (MyriadObject :> RootModel)
    /\ order = <<MyriadObject>>
    /\ result = "ok"
    /\ last = [name |-> MyriadObject, bases |-> <<ObjectBase>>,
               namespace |-> MyriadObjectNamespace]
    /\ replay = [classes |-> (MyriadObject :> RootModel), order |-> <<MyriadObject>>,
                 caught |-> FALSE]
    /\ pc = "compile"
    /\ RunInit
    /\ ctor_app = [super |-> "object", size |-> <<>>, pairs |-> <<>>]
    /\ ctor_self = calloc_vtable(host, "object + 1")
    /\ synth_in = <<>>
    /\ synth_out = <<>>

\* the class bodies the runs of the generated program are explored for
RunMembers == {m \in Members : m.kind \in MethodKinds /\ (IsVerbatim(m) => m.doc)}

DefineRunSubclass ==
    /\ pc = "compile"
    /\ result = "ok"
    /\ Len(order) <= MaxClasses
    /\ \E namespace \in Namespaces(RunMembers, MaxMembers - Declared) :
          ClassStatement(ClassName[Len(order)], <<order[Len(order)]>>, namespace)
    /\ UNCHANGED <<pc, runVars, ctorVars>>

\* the generated sources are compiled, with or without CUDA, and started
Boot ==
    /\ pc = "compile"
    /\ pc' = "init_obj"
    /\ cuda' \in BOOLEAN
    /\ UNCHANGED <<buildVars, ctorVars, host, dev, devsym, regs, inited, objs, stack, devsize, mirror>>

(* MYRIAD_OBJ_INIT_FUN, statement by statement *)

\* #else return -1;
InitObjNoCuda ==
    /\ pc = "init_obj" /\ ~cuda
    /\ pc' = "classes"
    /\ UNCHANGED <<buildVars, ctorVars, runVars>>

\* cudaMalloc((void**)&obj_addr, class_size)
ObjMallocObj ==
    /\ pc = "init_obj" /\ cuda
    /\ regs' = [regs EXCEPT !.obj_addr = FreshDev(dev)]
    /\ dev' = (FreshDev(dev) :> <<>>) @@ dev
    /\ devsize' = (FreshDev(dev) :> SizeOf(RootModel.cls_struct)) @@ devsize
    /\ pc' = "obj_malloc_class"
    /\ UNCHANGED <<buildVars, ctorVars, cuda, host, devsym, inited, objs, stack, mirror>>

\* cudaMalloc((void**)&class_addr, class_size)
ObjMallocClass ==
    /\ pc = "obj_malloc_class"
    /\ regs' = [regs EXCEPT !.class_addr = FreshDev(dev)]
    /\ dev' = (FreshDev(dev) :> <<>>) @@ dev
    /\ devsize' = (FreshDev(dev) :> SizeOf(RootModel.cls_struct)) @@ devsize
    /\ pc' = "obj_copy_class"
    /\ UNCHANGED <<buildVars, ctorVars, cuda, host, devsym, inited, objs, stack, mirror>>

\* the root vtables copied as they are, super still the host's object
AnonClass_host_super(r, size) ==
    [m_class |-> r.class_addr, super |-> "object", device_class |-> r.class_addr,
     size |-> size, slots |-> <<NullFn, NullFn, NullFn, NullFn>>]

\* anon_class_class / anon_obj_class
AnonClass(r, size) ==
    [m_class |-> r.class_addr, super |-> r.obj_addr, device_class |-> r.class_addr,
     size |-> size, slots |-> <<NullFn, NullFn, NullFn, NullFn>>]

\* the init function without the copy of anon_class_class
ObjCopyClass_skip ==
    /\ pc = "obj_copy_class"
    /\ pc' = "obj_set_class"
    /\ UNCHANGED <<buildVars, ctorVars, runVars>>

\* cudaMemcpy(class_addr, &anon_class_class, ...)
ObjCopyClass ==
    /\ pc = "obj_copy_class"
    /\ dev' = [dev EXCEPT ![regs.class_addr] =
                  <<AnonClass(regs, SizeOf(RootModel.cls_struct))>>]
    /\ pc' = "obj_set_class"
    /\ UNCHANGED <<buildVars, ctorVars, cuda, host, devsym, regs, inited, objs, stack, devsize, mirror>>

\* the init function storing class_addr in object[1]'s embedded object
ObjSetClass_m_class ==
    /\ pc = "obj_set_class"
    /\ host' = [host EXCEPT !["object + 1"].m_class = regs.class_addr]
    /\ pc' = "obj_copy_obj"
    /\ UNCHANGED <<buildVars, ctorVars, cuda, dev, devsym, regs, inited, objs, stack, devsize, mirror>>

\* object[1].device_class = class_addr
ObjSetClass ==
    /\ pc = "obj_set_class"
    /\ host' = [host EXCEPT !["object + 1"].device_class = regs.class_addr]
    /\ pc' = "obj_copy_obj"
    /\ UNCHANGED <<buildVars, ctorVars, cuda, dev, devsym, regs, inited, objs, stack, devsize, mirror>>

\* cudaMemcpy(obj_addr, &anon_obj_class, ...)
ObjCopyObj ==
    /\ pc = "obj_copy_obj"
    /\ dev' = [dev EXCEPT ![regs.obj_addr] =
                  <<AnonClass(regs, SizeOf(RootModel.obj_struct))>>]
    /\ pc' = "obj_set_obj"
    /\ UNCHANGED <<buildVars, ctorVars, cuda, host, devsym, regs, inited, objs, stack, devsize, mirror>>

\* the init function without the assignment to object[0].device_class
ObjSetObj_skip ==
    /\ pc = "obj_set_obj"
    /\ pc' = "obj_symbol_class"
    /\ UNCHANGED <<buildVars, ctorVars, runVars>>

\* the init function storing class_addr in object[0].device_class
ObjSetObj_class_addr ==
    /\ pc = "obj_set_obj"
    /\ host' = [host EXCEPT !["object"].device_class = regs.class_addr]
    /\ pc' = "obj_symbol_class"
    /\ UNCHANGED <<buildVars, ctorVars, cuda, dev, devsym, regs, inited, objs, stack,
                   devsize, mirror>>

\* object[0].device_class = obj_addr
ObjSetObj ==
    /\ pc = "obj_set_obj"
    /\ host' = [host EXCEPT !["object"].device_class = regs.obj_addr]
    /\ pc' = "obj_symbol_class"
    /\ UNCHANGED <<buildVars, ctorVars, cuda, dev, devsym, regs, inited, objs, stack, devsize, mirror>>

\* cudaMemcpyToSymbol(&MyriadClass_dev_t, &class_addr, ...)
ObjSymbolClass ==
    /\ pc = "obj_symbol_class"
    /\ devsym' = [devsym EXCEPT !.MyriadClass_dev_t = regs.class_addr]
    /\ pc' = "obj_symbol_obj"
    /\ UNCHANGED <<buildVars, ctorVars, cuda, host, dev, regs, inited, objs, stack, devsize, mirror>>

\* cudaMemcpyToSymbol(&MyriadObject_dev_t, &obj_addr, ...); return 0
ObjSymbolObj ==
    /\ pc = "obj_symbol_obj"
    /\ devsym' = [devsym EXCEPT !.MyriadObject_dev_t = regs.obj_addr]
    /\ pc' = "classes"
    /\ UNCHANGED <<buildVars, ctorVars, cuda, host, dev, regs, inited, objs, stack, devsize, mirror>>

\* the statements wrapped in CUDA_CHECK_RETURN
CudaCalls ==
    {"obj_malloc_class", "obj_copy_class", "obj_copy_obj",
     "obj_symbol_class", "obj_symbol_obj", "mirror_malloc", "mirror_copy"}

\* a failed copy that is not checked: the program goes on to the next statement
CudaFail_continue ==
    /\ pc \in {"obj_copy_class", "obj_copy_obj", "mirror_copy"}
    /\ pc' = CASE pc = "obj_copy_class" -> "obj_set_class"
               [] pc = "obj_copy_obj" -> "obj_set_obj"
               [] OTHER -> "mirror_record"
    /\ UNCHANGED <<buildVars, ctorVars, runVars>>

\* CUDA_CHECK_RETURN on a failed call
CudaFail ==
    /\ pc \in CudaCalls \/ (pc = "init_obj" /\ cuda)
    /\ pc' = "aborted"
    /\ UNCHANGED <<buildVars, ctorVars, runVars>>

\* the init function of the next subclass: its class's vtable and its own
InitClass ==
    /\ pc = "classes"
    /\ inited < Len(order)
    /\ LET c == order[inited + 1]
           s == SuperOf(c)
           with_cls ==
               (ClsVar(c) :>
                   myriad_new(host, "object + 1",
                              [super |-> ClsVar(s),
                               size |-> SizeOf(classes[c].cls_struct),
                               pairs |-> ClsPairs(c)])) @@ host
       IN  host' =
               (ObjVar(c) :>
                   myriad_new(with_cls, ClsVar(c),
                              [super |-> ObjVar(s),
                               size |-> SizeOf(classes[c].obj_struct),
                               pairs |-> ObjPairs(c)])) @@ with_cls
    /\ inited' = inited + 1
    /\ IF cuda
       THEN /\ pc' = "mirror_malloc"
            /\ mirror' = [self |-> ClsVar(order[inited + 1]), dev_class |-> NULL]
       ELSE UNCHANGED <<pc, mirror>>
    /\ UNCHANGED <<buildVars, ctorVars, cuda, dev, devsym, regs, objs, stack, devsize>>

(* cls_cudafy on the two vtables the init function has just constructed,
   statement by statement *)

\* cudaMalloc((void**)&dev_class, class_size), class_size = myriad_size_of(_self)
MirrorMalloc ==
    /\ pc = "mirror_malloc"
    /\ mirror' = [mirror EXCEPT !.dev_class = FreshDev(dev)]
    /\ dev' = (FreshDev(dev) :> <<>>) @@ dev
    /\ devsize' = (FreshDev(dev) :> myriad_size_of(host, <<>>, mirror.self)) @@ devsize
    /\ pc' = "mirror_copy"
    /\ UNCHANGED <<buildVars, ctorVars, cuda, host, devsym, regs, inited, objs, stack>>

\* class_cpy: calloc, memcpy of self, then _.m_class overwritten by dev_class
class_cpy(h, self, dev_class) == [h[self] EXCEPT !.m_class = dev_class]

\* cudaMemcpy((void*)dev_class, class_cpy, class_size, ...); free(class_cpy)
MirrorCopy ==
    /\ pc = "mirror_copy"
    /\ dev' = [dev EXCEPT ![mirror.dev_class] =
                  <<class_cpy(host, mirror.self, mirror.dev_class)>>]
    /\ pc' = "mirror_record"
    /\ UNCHANGED <<buildVars, ctorVars, cuda, host, devsym, regs, inited, objs, stack,
                   devsize, mirror>>

\* return (void*) dev_class; the init function records it in the vtable and
\* goes on to the class's object vtable
MirrorRecord ==
    /\ pc = "mirror_record"
    /\ host' = [host EXCEPT ![mirror.self].device_class = mirror.dev_class]
    /\ IF mirror.self = ClsVar(order[inited])
       THEN /\ mirror' = [self |-> ObjVar(order[inited]), dev_class |-> NULL]
            /\ pc' = "mirror_malloc"
       ELSE /\ mirror' = [self |-> NULL, dev_class |-> NULL]
            /\ pc' = "classes"
    /\ UNCHANGED <<buildVars, ctorVars, cuda, dev, devsym, regs, inited, objs, stack,
                   devsize>>

\* every init function has run
StartupDone ==
    /\ pc = "classes"
    /\ inited = Len(order)
    /\ pc' = "running"
    /\ UNCHANGED <<buildVars, ctorVars, runVars>>

Startup ==
    \/ InitObjNoCuda \/ ObjMallocObj \/ ObjMallocClass \/ ObjCopyClass
    \/ ObjSetClass \/ ObjCopyObj \/ ObjSetObj \/ ObjSymbolClass \/ ObjSymbolObj
    \/ CudaFail \/ InitClass \/ MirrorMalloc \/ MirrorCopy \/ MirrorRecord
    \/ StartupDone

----------------------------------------------------------------------------
(* MyriadMethod: the delegator and super delegator of a method *)

\* "super_" + ident
SuperIdent(ident) ==
    CASE ident = "ctor" -> "super_ctor"
      [] ident = "dtor" -> "super_dtor"
      [] ident = "cudafy" -> "super_cudafy"
      [] ident = "decudafy" -> "super_decudafy"
      [] ident = "fire" -> "super_fire"
      [] OTHER -> "super_method"

\* ret_var.base_type.ptr
BaseTypePtr(ret_var) == ret_var.ptr

\* delegator.ret_var.base_type is MVoid and not delegator.ret_var.base_type.ptr
ReturnsNothing(delegator) ==
    delegator.ret_var.base = "MVoid" /\ ~BaseTypePtr(delegator.ret_var)

\* MyriadMethod.__init__: self.delegator, self.super_delegator
MyriadMethod(m_fxn) ==
    [delegator |-> m_fxn,
     super_delegator |->
        MyriadFunction(SuperIdent(m_fxn.ident), <<"_class">> \o m_fxn.args_list,
                       m_fxn.ret_var)]

\* DELG_TEMPLATE rendered: the C function, statement by statement
DELG_TEMPLATE(method) ==
    [ident |-> method.delegator.ident,
     params |-> method.delegator.args_list,
     lookup |-> "myriad_class_of",
     lookup_arg |-> method.delegator.args_list[1],
     assert_member |-> TypedefName(method.delegator.ident),
     call_member |-> MyPrefixed(TypedefName(method.delegator.ident)),
     call_args |-> method.delegator.args_list,
     returns_value |-> ~ReturnsNothing(method.delegator)]

\* a super delegator that looks the class up from the receiver
SUPER_DELG_TEMPLATE_dynamic(method) ==
    [ident |-> method.super_delegator.ident,
     params |-> method.super_delegator.args_list,
     lookup |-> "myriad_class_of",
     lookup_arg |-> method.super_delegator.args_list[2],
     assert_member |-> TypedefName(method.delegator.ident),
     call_member |-> MyPrefixed(TypedefName(method.delegator.ident)),
     call_args |-> method.super_delegator.args_list,
     returns_value |-> ~ReturnsNothing(method.delegator)]

\* SUPER_DELG_TEMPLATE rendered
SUPER_DELG_TEMPLATE(method) ==
    [ident |-> method.super_delegator.ident,
     params |-> method.super_delegator.args_list,
     lookup |-> "myriad_super",
     lookup_arg |-> method.super_delegator.args_list[1],
     assert_member |-> TypedefName(method.delegator.ident),
     call_member |-> MyPrefixed(TypedefName(method.delegator.ident)),
     call_args |-> method.super_delegator.args_list,
     returns_value |-> ~ReturnsNothing(method.delegator)]

\* MyriadFunction.from_myriad_func(fxn, ident, args_list): a copy
from_myriad_func(fxn, ident, args_list) ==
    [fxn EXCEPT !.ident = ident, !.args_list = args_list]

\* create_delegator(instance_fxn, classname)
create_delegator(instance_fxn, classname) ==
    LET ist_cpy == from_myriad_func(instance_fxn, instance_fxn.ident,
                                    instance_fxn.args_list)
    IN  [ist_cpy EXCEPT !.fun_def = DELG_TEMPLATE([delegator |-> ist_cpy])]

\* the new argument left where the assignment put it, at the end
move_to_front_omitted(super_args, arg) == super_args \o <<arg>>

\* super_args[len(super_args) + 1] = arg; super_args.move_to_end(..., last=False)
move_to_front(super_args, arg) == <<arg>> \o super_args

\* create_super_delegator(delg_fxn, classname)
create_super_delegator(delg_fxn, classname) ==
    LET super_args == move_to_front(delg_fxn.args_list, "_class")
        s_delg_f == from_myriad_func(delg_fxn, SuperIdent(delg_fxn.ident), super_args)
    IN  [s_delg_f EXCEPT
            !.fun_def = SUPER_DELG_TEMPLATE([delegator |-> delg_fxn,
                                             super_delegator |-> s_delg_f])]

\* the delegators a class's files define: one per method of own_methods
Delegators(cls) ==
    [i \in 1..Len(cls.own_methods) |->
        create_delegator(cls.own_methods[i], cls.cls_name)]

\* the super delegators a class's files define
SuperDelegators(cls) ==
    [i \in 1..Len(cls.own_methods) |->
        create_super_delegator(cls.own_methods[i], cls.cls_name)]

\* the method object of a lifecycle method, made where MyriadObject
\* introduces it
MethodOf(ident) == MyriadMethod(OdGet(RootModel.myriad_methods, ident))

\* the value a parameter holds in a call with these actual arguments
ArgOf(fn, actuals, param) == actuals[IndexOf(fn.params, param)]

\* m_class->member of a const struct MyriadClass*
SlotAt(h, vtable, member) ==
    h[vtable].slots[IndexOf(SizeOf(RootModel.cls_struct), member) - OffsetMyCtor]

\* the locals of the method called, before its first statement
EntryLocals == [at |-> "entry", my_size |-> <<>>, tmp |-> NULL, n_dev_obj |-> NULL]

\* a call of a rendered delegator or super delegator, up to the point where
\* it has called through the slot: the frame of the callee
Invoke(h, os, fn, actuals) ==
    LET target == IF fn.lookup = "myriad_class_of"
                  THEN myriad_class_of(h, os, ArgOf(fn, actuals, fn.lookup_arg))
                  ELSE myriad_super(h, ArgOf(fn, actuals, fn.lookup_arg))
    IN  [via |-> fn.ident,
         actuals |-> actuals,
         vtable |-> target,
         asserted |-> fn.assert_member,
         invoked |-> fn.call_member,
         impl |-> SlotAt(h, target, fn.call_member),
         args |-> [i \in 1..Len(fn.call_args) |-> ArgOf(fn, actuals, fn.call_args[i])],
         returns_value |-> fn.returns_value,
         locals |-> EntryLocals]

\* the arguments other than the receiver a caller passes to a method
ExtraArgs(ident) == Tail(Signature(ident).args)

\* myriad_new(cls): an instance of a class of the program
NewInstance ==
    /\ pc = "running"
    /\ objs = <<>>
    /\ \E c \in DOMAIN classes : objs' = ("inst" :> [m_class |-> ObjVar(c)])
    /\ UNCHANGED <<buildVars, ctorVars, pc, cuda, host, dev, devsym, regs, inited, stack, devsize, mirror>>

\* a caller calls a lifecycle method's delegator on the instance
Call ==
    /\ pc = "running"
    /\ stack = <<>>
    /\ "inst" \in DOMAIN objs
    /\ \E i \in 1..Len(LifecycleMethods) :
          LET m == LifecycleMethods[i] IN
          stack' = <<Invoke(host, objs, DELG_TEMPLATE(MethodOf(m)),
                            <<"inst">> \o ExtraArgs(m))>>
    /\ UNCHANGED <<buildVars, ctorVars, pc, cuda, host, dev, devsym, regs, inited, objs, devsize, mirror>>

\* the running method is a subclass's override and calls the method's super
\* delegator with its own class as _class and the arguments it was given
SuperCall ==
    /\ pc = "running"
    /\ stack # <<>>
    /\ Len(stack) <= Len(order)
    /\ LET top == stack[Len(stack)] IN
       /\ top.impl # NullFn
       /\ top.impl[1] \in Subclasses
       /\ stack' = Append(stack,
              Invoke(host, objs, SUPER_DELG_TEMPLATE(MethodOf(top.impl[2])),
                     <<ObjVar(top.impl[1])>> \o
                        SubSeq(top.args, 1, Len(Signature(top.impl[2]).args))))
    /\ UNCHANGED <<buildVars, ctorVars, pc, cuda, host, dev, devsym, regs, inited, objs, devsize, mirror>>

(* MyriadObject.cudafy (MyriadObject_cudafy), statement by statement, in the
   frame whose implementation it is *)

\* the frame that is running
Top == stack[Len(stack)]

\* the frame runs MyriadObject's cudafy with an instance as its self; the call
\* a super delegator makes hands it a vtable and one argument too many, and
\* what the body does with those is left open like any other method's body
RunsCudafy(f) ==
    /\ f.impl = <<"MyriadObject", "cudafy">>
    /\ f.args[1] \in DOMAIN objs

\* MyriadObject's cudafy is running at this statement
InCudafy(at) ==
    /\ pc = "running"
    /\ stack # <<>>
    /\ RunsCudafy(Top)
    /\ Top.locals.at = at

\* the frame goes on to a statement with these locals set
Goto(at, locals) ==
    stack' = [stack EXCEPT ![Len(stack)].locals = locals @@ [@ EXCEPT !.at = at]]

\* _self: the struct MyriadObject the method's self points to
Self == Top.args[1]

\* _self->m_class = value
SetMClass(value) == objs' = [objs EXCEPT ![Self].m_class = value]

\* without CUDA the body is return NULL; with it: n_dev_obj = NULL,
\* my_size = myriad_size_of(self), tmp = _self->m_class
CudafyEnter ==
    /\ InCudafy("entry")
    /\ IF cuda
       THEN Goto("swap", [my_size |-> myriad_size_of(host, objs, Self),
                          tmp |-> myriad_class_of(host, objs, Self)])
       ELSE Goto("return", [n_dev_obj |-> NULL])
    /\ UNCHANGED <<buildVars, ctorVars, pc, cuda, host, dev, devsym, regs, inited, objs, devsize, mirror>>

\* _self->m_class = _self->m_class->device_class
CudafySwap ==
    /\ InCudafy("swap")
    /\ SetMClass(host[myriad_class_of(host, objs, Self)].device_class)
    /\ Goto("malloc", <<>>)
    /\ UNCHANGED <<buildVars, ctorVars, pc, cuda, host, dev, devsym, regs, inited, devsize, mirror>>

\* cudaMalloc(&n_dev_obj, my_size), while the accelerator has memory left
CudafyMalloc ==
    /\ InCudafy("malloc")
    /\ Cardinality(DOMAIN dev) < Len(DevAddrs)
    /\ dev' = (FreshDev(dev) :> <<>>) @@ dev
    /\ devsize' = (FreshDev(dev) :> Top.locals.my_size) @@ devsize
    /\ Goto("copy", [n_dev_obj |-> FreshDev(dev)])
    /\ UNCHANGED <<buildVars, ctorVars, pc, cuda, host, devsym, regs, inited, objs, mirror>>

\* cudaMemcpy(n_dev_obj, _self, my_size, cudaMemcpyHostToDevice)
CudafyCopy ==
    /\ InCudafy("copy")
    /\ dev' = [dev EXCEPT ![Top.locals.n_dev_obj] = <<objs[Self]>>]
    /\ Goto("restore", <<>>)
    /\ UNCHANGED <<buildVars, ctorVars, pc, cuda, host, devsym, regs, inited, objs, devsize, mirror>>

\* the body without its last assignment
CudafyRestore_omitted ==
    /\ InCudafy("restore")
    /\ Goto("return", <<>>)
    /\ UNCHANGED <<buildVars, ctorVars, pc, cuda, host, dev, devsym, regs, inited, objs, devsize, mirror>>

\* _self->m_class = tmp
CudafyRestore ==
    /\ InCudafy("restore")
    /\ SetMClass(Top.locals.tmp)
    /\ Goto("return", <<>>)
    /\ UNCHANGED <<buildVars, ctorVars, pc, cuda, host, dev, devsym, regs, inited, devsize, mirror>>

\* CUDA_CHECK_RETURN on a failed cudaMalloc or cudaMemcpy of the body
CudafyFail ==
    /\ InCudafy("malloc") \/ InCudafy("copy")
    /\ pc' = "aborted"
    /\ UNCHANGED <<buildVars, ctorVars, runVars>>

\* the running method returns; MyriadObject's cudafy at return n_dev_obj
Return ==
    /\ pc = "running"
    /\ stack # <<>>
    /\ RunsCudafy(Top) => Top.locals.at = "return"
    /\ stack' = SubSeq(stack, 1, Len(stack) - 1)
    /\ UNCHANGED <<buildVars, ctorVars, pc, cuda, host, dev, devsym, regs, inited, objs, devsize, mirror>>

Cudafy ==
    CudafyEnter \/ CudafySwap \/ CudafyMalloc \/ CudafyCopy \/ CudafyRestore
        \/ CudafyFail

Dispatch == NewInstance \/ Call \/ SuperCall \/ Return \/ Cudafy

----------------------------------------------------------------------------
(* cls_ctor on its own: any superclass slot table, any list of pairs *)

MaxPairs == 2

\* the selectors a caller may pass: the four delegators and another function
Selectors == {"ctor", "dtor", "cudafy", "decudafy", "fire"}

Replacements == {<<"Sub", "f">>, <<"Sub", "g">>}

\* the slot tables the superclass may have
SuperSlots == [1..Len(LifecycleMethods) -> {"Base", "Mid"}]

PairLists ==
    UNION {[1..n -> Selectors \X Replacements] : n \in 0..MaxPairs}

InitCtor ==
    /\ classes = (MyriadObject :> RootModel)
    /\ order = <<MyriadObject>>
    /\ result = "ok"
    /\ last = [name |-> MyriadObject, bases |-> <<ObjectBase>>,
               namespace |-> MyriadObjectNamespace]
    /\ replay = [classes |-> (MyriadObject :> RootModel), order |-> <<MyriadObject>>,
                 caught |-> FALSE]
    /\ pc = "cls_ctor"
    /\ cuda = FALSE
    /\ \E owners \in SuperSlots :
          host = ("Super" :>
                    [StaticObject["object"] EXCEPT
                        !.slots = [i \in 1..Len(LifecycleMethods) |->
                                      <<owners[i], LifecycleMethods[i]>>]])
                 @@ StaticObject
    /\ dev = <<>>
    /\ devsym = [MyriadObject_dev_t |-> NULL, MyriadClass_dev_t |-> NULL]
    /\ regs = [obj_addr |-> NULL, class_addr |-> NULL]
    /\ inited = 1
    /\ objs = <<>>
    /\ stack = <<>>
    /\ devsize = <<>>
    /\ mirror = [self |-> NULL, dev_class |-> NULL]
    /\ \E pairs \in PairLists :
          ctor_app = [super |-> "Super", size |-> SizeOf(RootModel.obj_struct),
                      pairs |-> pairs \o << <<"0", NullFn>> >>]
    /\ ctor_self = calloc_vtable(StaticObject, "object + 1")
    /\ synth_in = <<>>
    /\ synth_out = <<>>

\* myriad_new's call of the class's constructor on the zeroed vtable
ApplyClsCtor ==
    /\ pc = "cls_ctor"
    /\ ctor_self' = cls_ctor(host, ctor_self, ctor_app)
    /\ pc' = "constructed"
    /\ UNCHANGED <<buildVars, runVars, ctor_app, synth_in, synth_out>>

NextCtor == ApplyClsCtor

SpecCtor == InitCtor /\ [][NextCtor]_vars

----------------------------------------------------------------------------
(* delegator synthesis on its own: any method signature *)

MaxParams == 3

ParamNames == <<"current", "dt", "gain", "tau">>

\* parameter lists: the receiver, then up to MaxParams - 1 distinct parameters
ArgLists ==
    {<<"self">> \o rest :
        rest \in {r \in UNION {[1..n -> {ParamNames[i] : i \in 1..(MaxParams - 1)}] :
                                 n \in 0..(MaxParams - 1)} :
                     \A i, j \in DOMAIN r : i # j => r[i] # r[j]}}

RetVars ==
    {[base |-> "MVoid", ptr |-> FALSE], [base |-> "MVoid", ptr |-> TRUE],
     [base |-> "MInt", ptr |-> FALSE], [base |-> "MDouble", ptr |-> FALSE]}

InitSynth ==
    /\ classes = (MyriadObject :> RootModel)
    /\ order = <<MyriadObject>>
    /\ result = "ok"
    /\ last = [name |-> MyriadObject, bases |-> <<ObjectBase>>,
               namespace |-> MyriadObjectNamespace]
    /\ replay = [classes |-> (MyriadObject :> RootModel), order |-> <<MyriadObject>>,
                 caught |-> FALSE]
    /\ pc = "synthesize"
    /\ RunInit
    /\ ctor_app = [super |-> "object", size |-> <<>>, pairs |-> <<>>]
    /\ ctor_self = calloc_vtable(host, "object + 1")
    /\ \E ident \in {"fire", "dtor", "cudafy"}, args \in ArgLists, ret \in RetVars :
          synth_in = MyriadFunction(ident, args, ret)
    /\ synth_out = <<>>

\* create_delegator, create_super_delegator on a method of own_methods
Synthesize ==
    /\ pc = "synthesize"
    /\ synth_out' = [delegator |-> create_delegator(synth_in, "NeuronClass"),
                     super_delegator |-> create_super_delegator(synth_in, "NeuronClass")]
    /\ pc' = "synthesized"
    /\ UNCHANGED <<buildVars, runVars, ctor_app, ctor_self, synth_in>>

\* MyriadMethod(m_fxn)
NewMyriadMethod ==
    /\ pc = "synthesize"
    /\ synth_out' = MyriadMethod(synth_in)
    /\ pc' = "method"
    /\ UNCHANGED <<buildVars, runVars, ctor_app, ctor_self, synth_in>>

NextSynth == Synthesize \/ NewMyriadMethod

SpecSynth == InitSynth /\ [][NextSynth]_vars

Next == DefineSubclass \/ DefineAfterFailure

Spec == Init /\ [][Next]_vars

NextRun == DefineRunSubclass \/ Boot \/ Startup \/ Dispatch

SpecRun == Init /\ [][NextRun]_vars

----------------------------------------------------------------------------
(* C5 *)

\* a frame entered through a super delegator
IsSuperFrame(f) == f.via \notin SeqToSet(LifecycleMethods)

\* C5: when class C's override of M calls M's super delegator with C's own
\* vtable as _class, the vtable the call goes through is C's superclass's and
\* the implementation invoked is the one bound to M there, which belongs to a
\* proper ancestor of C and so is never C's override, whatever the receiver's
\* dynamic class; nested super calls climb at most one frame per class
C5_SuperDelegator ==
    /\ Len(stack) <= Len(order)
    /\ \A i \in 2..Len(stack) :
          LET C == stack[i - 1].impl[1]
              M == stack[i - 1].impl[2]
              f == stack[i]
          IN  /\ f.actuals[1] = ObjVar(C)
              /\ f.vtable = ObjVar(SuperOf(C))
              /\ f.impl = SlotAt(host, ObjVar(SuperOf(C)), SlotOfKey(M))
              /\ f.impl # NullFn
              /\ f.impl[2] = M
              /\ f.impl[1] \in Ancestors(C)

\* a receiver whose dynamic class is a proper descendant of the class whose
\* override runs first, and two nested super calls above it
C5_Witness ==
    /\ Len(stack) = 3
    /\ objs["inst"].m_class # ObjVar(stack[1].impl[1])
    /\ IsSuperFrame(stack[2]) /\ IsSuperFrame(stack[3])
    /\ stack[3].impl[1] = MyriadObject

----------------------------------------------------------------------------
(* C6 *)

\* C6, as claimed: a delegator call goes through the vtable of the receiver's
\* dynamic class, asserts the very slot it then invokes, passes the original
\* arguments in order and returns nothing only for a non-pointer void
C6_DelegatorDispatch ==
    \A i \in 1..Len(stack) :
        ~IsSuperFrame(stack[i]) =>
            /\ stack[i].vtable = objs[stack[i].actuals[1]].m_class
            /\ stack[i].asserted = stack[i].invoked
            /\ stack[i].args = stack[i].actuals
            /\ stack[i].returns_value = (stack[i].via # "decudafy")

----------------------------------------------------------------------------
(* C7 *)

DeclaresNoMethods(c) == SelectKeys(classes[c].body, MethodKinds) = <<>>

\* C7: a class that declares no method has the four lifecycle slots in its
\* vtable layout, each exactly once; each lifecycle method has a body in the
\* class's own method table or an ancestor's; and once the class's vtable has
\* been constructed at startup all four of its slots are bound
C7_DefaultCompleteness ==
    \A c \in Subclasses :
        DeclaresNoMethods(c) =>
            \A i \in 1..Len(LifecycleMethods) :
                LET m == LifecycleMethods[i] IN
                /\ Count(SizeOf(classes[c].cls_struct), SlotOfKey(m)) = 1
                /\ \E a \in {c} \cup Ancestors(c) :
                      /\ HasKey(classes[a].myriad_methods, m)
                      /\ OdGet(classes[a].myriad_methods, m).fun_def # ""
                /\ ObjVar(c) \in DOMAIN host =>
                      /\ SlotAt(host, ObjVar(c), SlotOfKey(m)) # NullFn
                      /\ SlotAt(host, ObjVar(c), SlotOfKey(m))[2] = m

\* a class two levels below MyriadObject that declares no method, constructed
C7_Witness ==
    \E c \in Subclasses :
        /\ DeclaresNoMethods(c)
        /\ SuperOf(c) # MyriadObject
        /\ ObjVar(c) \in DOMAIN host
        /\ pc = "running"

----------------------------------------------------------------------------
(* C8 *)

\* the pairs of the argument list, up to the terminating 0
PairsOf(a) == SubSeq(a.pairs, 1, Len(a.pairs) - 1)

\* positions of the pairs whose selector is the delegator of method m
Matches(a, m) == {j \in 1..Len(PairsOf(a)) : PairsOf(a)[j][1] = m}

Last(S) == CHOOSE j \in S : \A k \in S : k <= j

\* C8: the vtable cls_ctor leaves has, in each of the four lifecycle slots, the
\* replacement paired with that slot's selector (the last such pair), and the
\* superclass's slot where no pair has that selector; a pair with any other
\* selector changes nothing
C8_ClsCtor ==
    pc = "constructed" =>
        /\ Len(ctor_self.slots) = Len(LifecycleMethods)
        /\ \A i \in 1..Len(LifecycleMethods) :
              LET m == LifecycleMethods[i] IN
              ctor_self.slots[i] =
                  IF Matches(ctor_app, m) = {}
                  THEN host[ctor_app.super].slots[i]
                  ELSE PairsOf(ctor_app)[Last(Matches(ctor_app, m))][2]

\* a list that rebinds the destructor and also names a function that is no
\* lifecycle delegator
C8_Witness ==
    /\ pc = "constructed"
    /\ Matches(ctor_app, "dtor") # {}
    /\ Matches(ctor_app, "fire") # {}
    /\ ctor_self.slots # host[ctor_app.super].slots

----------------------------------------------------------------------------
(* C9 *)

----------------------------------------------------------------------------
(* C10 *)

\* a vtable's accelerator copy has been written
Mirrored(v) ==
    /\ host[v].device_class \in DOMAIN dev
    /\ dev[host[v].device_class] # <<>>

MirrorNullUntilMirrored ==
    /\ pc \in {"compile", "init_obj"} =>
          \A v \in DOMAIN host : host[v].device_class = NULL
    /\ \A v \in DOMAIN host : host[v].device_class # NULL => Mirrored(v)

----------------------------------------------------------------------------
(* C11 *)

RootPair == {"object", "object + 1"}

RootMirrored == \A v \in RootPair : host[v].device_class # NULL /\ Mirrored(v)

\* accelerator allocations of the size of a vtable, as against an instance's
VtableAllocs ==
    {a \in DOMAIN dev :
        \E c \in DOMAIN classes : devsize[a] = SizeOf(classes[c].cls_struct)}

\* accelerator allocations for a vtable no vtable's mirror pointer records yet
Unrecorded ==
    {a \in VtableAllocs : \A v \in DOMAIN host : host[v].device_class # a}

\* C11: while a subclass vtable is being mirrored the root pair has been
\* mirrored, the vtable's superclass vtable has its mirror address recorded,
\* its own mirror pointer is still null and no other vtable's mirroring is
\* under way; a subclass vtable that has been mirrored has a mirrored
\* superclass vtable
C11_MirrorOrdering ==
    /\ mirror.self # NULL =>
          /\ mirror.self \notin RootPair
          /\ RootMirrored
          /\ host[myriad_super(host, mirror.self)].device_class # NULL
          /\ host[mirror.self].device_class = NULL
          /\ Unrecorded \subseteq {mirror.dev_class}
    /\ \A v \in DOMAIN host \ RootPair :
          host[v].device_class # NULL =>
              /\ RootMirrored
              /\ host[myriad_super(host, v)].device_class # NULL

\* the object vtable of a class two levels below MyriadObject, being mirrored
C11_Witness ==
    /\ pc = "mirror_copy"
    /\ mirror.self = ObjVar(order[inited])
    /\ SuperOf(order[inited]) # MyriadObject

----------------------------------------------------------------------------
(* C12 *)

\* C12: a vtable whose mirror pointer is recorded points at accelerator
\* storage that was allocated with the vtable's own size and filled from the
\* host-side copy made for it: for a subclass vtable the vtable itself with
\* its class reference replaced, for the root pair anon_obj_class at obj_addr
\* and anon_class_class at class_addr
C12_MirrorConstruction ==
    /\ \A v \in DOMAIN host :
          host[v].device_class # NULL =>
              LET a == host[v].device_class IN
              /\ a \in DOMAIN dev
              /\ devsize[a] = myriad_size_of(host, <<>>, v)
              /\ dev[a] # <<>>
              /\ v \notin RootPair =>
                    dev[a][1] = [host[v] EXCEPT !.m_class = a, !.device_class = NULL]
    /\ host["object"].device_class # NULL =>
          /\ host["object"].device_class = regs.obj_addr
          /\ dev[regs.obj_addr][1] = AnonClass(regs, SizeOf(RootModel.obj_struct))
    /\ host["object + 1"].device_class # NULL =>
          /\ host["object + 1"].device_class = regs.class_addr
          /\ dev[regs.class_addr][1] = AnonClass(regs, SizeOf(RootModel.cls_struct))

\* the running program with the root pair and a subclass's vtables mirrored
C12_Witness ==
    /\ pc = "running"
    /\ host["object"].device_class # NULL
    /\ \E c \in Subclasses : host[ObjVar(c)].device_class # NULL

----------------------------------------------------------------------------
(* C13 *)

\* C13: the program runs with accelerator support only when every allocation
\* it made was filled and recorded and every vtable is mirrored; after a
\* failed step it is aborted, so it never runs on a partially mirrored graph
C13_MirrorFailureFatal ==
    (pc = "running" /\ cuda) =>
        /\ \A v \in DOMAIN host : host[v].device_class # NULL /\ Mirrored(v)
        /\ Unrecorded = {}
        /\ devsym.MyriadObject_dev_t = host["object"].device_class
        /\ devsym.MyriadClass_dev_t = host["object + 1"].device_class

\* startup aborted by a failed copy after some vtables were mirrored
C13_Witness ==
    /\ pc = "aborted"
    /\ RootMirrored
    /\ \E v \in DOMAIN host : host[v].device_class = NULL
    /\ Unrecorded # {}

----------------------------------------------------------------------------
(* C14 *)

\* the methods a class body tags class-level-internal
InternalMethods(c) == SelectKeys(classes[c].body, {"myriadclass"})

\* C14, as claimed: a class-level-internal method is not in the class's
\* own_methods but has a function-pointer slot in the class's vtable layout
C14_InternalMethodsAsClaimed ==
    \A c \in DOMAIN classes :
        \A i \in 1..Len(InternalMethods(c)) :
            LET k == InternalMethods(c)[i] IN
            /\ k \notin SeqToSet(Idents(classes[c].own_methods))
            /\ Count(SizeOf(classes[c].cls_struct), SlotOfKey(k)) >= 1

\* C14, amended: a class-level-internal method is not in the class's
\* own_methods, new name or inherited, and adds no slot to the class's vtable
\* layout: the layout has as many slots of that name as the superclass's
C14_InternalMethods ==
    \A c \in DOMAIN classes :
        \A i \in 1..Len(InternalMethods(c)) :
            LET k == InternalMethods(c)[i] IN
            /\ k \notin SeqToSet(Idents(classes[c].own_methods))
            /\ ~HasKey(classes[c].myriad_cls_vars, SlotOfKey(k))
            /\ Count(SizeOf(classes[c].cls_struct), SlotOfKey(k)) =
                  IF c = MyriadObject THEN 0
                  ELSE Count(SizeOf(classes[SuperOf(c)].cls_struct), SlotOfKey(k))

\* one class tags a new name class-level-internal, another a name that an
\* ancestor introduced as an ordinary method
C14_Witness ==
    /\ \E c \in Subclasses :
          /\ "fire" \in SeqToSet(InternalMethods(c))
          /\ \A a \in Ancestors(c) : "fire" \notin MethodNames(a, MethodKinds)
    /\ \E c \in Subclasses :
          /\ "fire" \in SeqToSet(InternalMethods(c))
          /\ \E a \in Ancestors(c) : "fire" \in MethodNames(a, {"myriad_method"})

----------------------------------------------------------------------------
(* C15 *)

OrdinaryKinds == MethodKinds \ {"myriadclass"}

\* how many delegators, and super delegators, for method name k class c makes
DelegatorsFor(c, k) == Count(Idents(Delegators(classes[c])), k)

SuperDelegatorsFor(c, k) == Count(Idents(SuperDelegators(classes[c])), SuperIdent(k))

----------------------------------------------------------------------------
(* C16 *)

\* "super_" + name, spelled out for the names synthesis is explored for
SuperName(name) ==
    CASE name = "fire" -> "super_fire"
      [] name = "dtor" -> "super_dtor"
      [] name = "cudafy" -> "super_cudafy"

\* C16: the super delegator made for a method with parameters p1 .. pk is
\* named "super_" + the method's name, returns what the method returns, and
\* takes the class reference followed by p1 .. pk in their order
C16_SuperDelegatorSignature ==
    pc \in {"synthesized", "method"} =>
        LET sd == synth_out.super_delegator
            k == Len(synth_in.args_list)
        IN  /\ sd.ident = SuperName(synth_in.ident)
            /\ sd.ret_var = synth_in.ret_var
            /\ Len(sd.args_list) = k + 1
            /\ sd.args_list[1] = "_class"
            /\ \A i \in 1..k : sd.args_list[i + 1] = synth_in.args_list[i]
            /\ synth_out.delegator.args_list = synth_in.args_list

\* a method with the receiver and two more parameters, through
\* create_super_delegator
C16_Witness ==
    /\ pc = "synthesized"
    /\ Len(synth_in.args_list) = 3
    /\ synth_in.ret_var = [base |-> "MVoid", ptr |-> FALSE]

----------------------------------------------------------------------------
(* C17 *)

\* C17, as claimed: a super delegator call asserts the slot it then invokes
\* in the superclass vtable it resolved, passes the callee the receiver and
\* the method's own arguments without the class reference, and returns a
\* value exactly when the method's delegator does
C17_SuperDelegatorCall ==
    \A i \in 1..Len(stack) :
        IsSuperFrame(stack[i]) =>
            /\ stack[i].vtable = myriad_super(host, stack[i].actuals[1])
            /\ stack[i].asserted = stack[i].invoked
            /\ stack[i].args = Tail(stack[i].actuals)
            /\ stack[i].returns_value = stack[1].returns_value

----------------------------------------------------------------------------
(* C18 *)

\* C18, as claimed: no class is built whose body declares a method that an
\* ancestor introduced with a different parameter list or return type
C18_IncompatibleOverrideRejected ==
    \A c \in Subclasses :
        \A i \in 1..Len(classes[c].body) :
            LET m == classes[c].body[i] IN
            m.kind \in MethodKinds =>
                \A a \in Ancestors(c) :
                    \A j \in 1..Len(classes[a].own_methods) :
                        LET f == classes[a].own_methods[j] IN
                        f.ident = m.key =>
                            /\ f.args_list = AnnotationsOf(m).args
                            /\ f.ret_var = AnnotationsOf(m).ret

----------------------------------------------------------------------------
(* C19 *)

\* the last class statement declares a verbatim method without body text
LastVerbatimEmpty ==
    \E i \in 1..Len(last.namespace) :
        /\ last.namespace[i].kind \in {"verbatim", "myriadclass"}
        /\ ~last.namespace[i].doc

\* C19: a class statement that declares a verbatim method, class-level-internal
\* or not, with absent or empty body text raises and builds no class; with
\* valid bases it raises the empty-docstring exception, and that exception is
\* never raised when every verbatim method has body text
C19_EmptyVerbatimRejected ==
    /\ LastVerbatimEmpty =>
          /\ result # "ok"
          /\ last.name \notin DOMAIN classes
          /\ check_bases(classes, last.bases) = "" => result = "Exception"
    /\ ~LastVerbatimEmpty => result # "Exception"

\* a subclass of a built subclass declares a class-level-internal method
\* without body text
C19_Witness ==
    /\ result = "Exception"
    /\ Len(order) >= 2
    /\ \E i \in 1..Len(last.namespace) :
          last.namespace[i].kind = "myriadclass" /\ ~last.namespace[i].doc
    /\ \A i \in 1..Len(last.namespace) :
          last.namespace[i].kind = "verbatim" => last.namespace[i].doc

----------------------------------------------------------------------------
(* C20 *)

\* the last class statement names more than one base, or one that is not a
\* class built from _MyriadObjectBase
LastBasesInvalid ==
    Len(last.bases) > 1 \/ ~IsMyriadClass(classes, last.bases[1])

\* C20: a class statement with invalid bases raises NotImplementedError (more
\* than one base) or TypeError (not a Myriad class) whatever its body holds,
\* so before the body is looked at, and builds no class; these errors are
\* raised for no other statement
C20_InvalidBasesRejected ==
    /\ LastBasesInvalid =>
          /\ result = IF Len(last.bases) > 1 THEN "NotImplementedError" ELSE "TypeError"
          /\ last.name \notin DOMAIN classes
          /\ order[Len(order)] # last.name
    /\ result \in {"NotImplementedError", "TypeError"} => LastBasesInvalid

\* two bases, and a body that would raise on its own
C20_Witness ==
    /\ Len(last.bases) > 1
    /\ LastVerbatimEmpty
    /\ result = "NotImplementedError"
    /\ Len(order) >= 2

----------------------------------------------------------------------------
(* C21: a class statement that raises leaves the built classes alone *)

\* the built classes are what the statements that did not raise build alone
SameAsReplay ==
    /\ replay.classes = classes
    /\ replay.order = order

----------------------------------------------------------------------------
(* C22: MyriadObject.cudafy on an instance *)

\* the frames in which MyriadObject's cudafy runs on an instance, CUDA defined
CudafyFrames ==
    {i \in 1..Len(stack) :
        /\ cuda
        /\ RunsCudafy(stack[i])}

\* the frames in which the instance's m_class is the swapped one
SwapWindow ==
    {i \in CudafyFrames : stack[i].locals.at \in {"malloc", "copy", "restore"}}

\* C22: once MyriadObject.cudafy has copied an instance, the accelerator copy's
\* m_class is the device_class of the instance's host vtable, which is that
\* vtable's accelerator mirror; when the call is about to return the host
\* instance's m_class is the host vtable it was when the call started; and
\* outside the statements between the swap and the restore of a call in
\* progress every host instance's m_class is a host vtable.
C22_InstanceCudafy ==
    /\ \A i \in CudafyFrames :
          LET f == stack[i]
              self == f.args[1] IN
          /\ f.locals.at \in {"restore", "return"} =>
                /\ dev[f.locals.n_dev_obj] =
                      <<[m_class |-> host[f.locals.tmp].device_class]>>
                /\ host[f.locals.tmp].device_class \in DOMAIN dev
                /\ dev[host[f.locals.tmp].device_class] # <<>>
                /\ dev[host[f.locals.tmp].device_class][1].size = host[f.locals.tmp].size
          /\ f.locals.at \in {"swap", "return"} =>
                /\ f.locals.tmp = f.vtable
                /\ objs[self].m_class = f.vtable
          /\ i \in SwapWindow => objs[self].m_class = host[f.vtable].device_class
    /\ SwapWindow = {} =>
          \A o \in DOMAIN objs : objs[o].m_class \in {ObjVar(c) : c \in DOMAIN classes}

\* MyriadObject.cudafy has copied an instance of a subclass and is at its return
C22_Witness ==
    \E i \in CudafyFrames :
        /\ stack[i].locals.at = "return"
        /\ stack[i].vtable # "object"
        /\ stack[i].locals.n_dev_obj \in DOMAIN dev
        /\ objs[stack[i].args[1]].m_class = stack[i].vtable
----------------------------------------------------------------------------
(* C23: the root pair on the accelerator *)

\* the init function of MyriadObject has run to its return 0
BootstrapDone == cuda /\ devsym.MyriadObject_dev_t # NULL

\* the pointer fields of a vtable
PointersOf(v) == {v.m_class, v.super, v.device_class}

\* C23: once MyriadObject's init function has returned with CUDA defined, the
\* mirrors of object and object + 1 both have m_class equal to the address of
\* object + 1's mirror, every pointer of either mirror is the address of one
\* of the two mirrors and none is a host address, each mirror's size is the
\* size of the host vtable it mirrors, and the four method slots of both
\* mirrors are null.
C23_RootMirrorsOnDevice ==
    BootstrapDone =>
        LET obj_addr == host["object"].device_class
            class_addr == host["object + 1"].device_class
            obj_mirror == dev[obj_addr][1]
            class_mirror == dev[class_addr][1] IN
        /\ obj_addr = devsym.MyriadObject_dev_t
        /\ class_addr = devsym.MyriadClass_dev_t
        /\ obj_addr # class_addr
        /\ obj_mirror.m_class = class_addr
        /\ class_mirror.m_class = class_addr
        /\ obj_mirror.super = obj_addr
        /\ class_mirror.super = obj_addr
        /\ \A m \in {obj_mirror, class_mirror} :
              /\ PointersOf(m) \subseteq {obj_addr, class_addr}
              /\ PointersOf(m) \cap DOMAIN host = {}
              /\ \A i \in 1..Len(m.slots) : m.slots[i] = NullFn
              /\ Len(m.slots) = Len(LifecycleMethods)
        /\ obj_mirror.size = host["object"].size
        /\ class_mirror.size = host["object + 1"].size
        /\ obj_mirror.size # class_mirror.size

\* the program runs with CUDA defined, its root pair and a subclass mirrored
C23_Witness ==
    /\ BootstrapDone
    /\ pc = "running"
    /\ Len(order) >= 2
    /\ \A i \in 1..4 : host["object"].slots[i] # NullFn
====
